---- MODULE Spec2Model ----
(***************************************************************************)
(* Word bingo (Bingo_P): card parser, merge sort, binary-search marking,   *)
(* greedy winner selection, Fisher-Yates round scheduling and the session  *)
(* orchestrator of src/src/app/page.tsx.                                   *)
(*                                                                         *)
(* Strings are sequences of one-character strings, compared as JavaScript  *)
(* compares them (UTF-16 code units, a proper prefix is smaller).  Array   *)
(* indices are kept 0-based as in the source; Seq access adds one.         *)
(*                                                                         *)
(* State that only the presentation reads (loading, manualError,           *)
(* palabraActual, manualInputText, activeTab, paginaActual) is left out;   *)
(* the text of an input box is the argument of the handler that reads it.  *)
(***************************************************************************)
EXTENDS Integers, Sequences, FiniteSets, TLC

VARIABLES
    cartones,           \* useState<Carton[]>: the session's card collection
    historialPalabras,  \* call history of the current round (newest first)
    rondas,             \* round sequence (languages)
    rondaIndex,         \* round pointer
    ganadores,          \* winner list of the current round
    mensajeRonda,       \* "none" or the kind of round message shown
    partidaTerminada,   \* finished flag
    bancosPalabras,     \* language -> dictionary, or NoBanco when the key is absent
    bancosLoading,      \* dictionaries still being fetched
    juegoIniciado,      \* started flag
    errorPalabra,       \* "none" or the kind of word error shown
    erroresCarga,       \* errors of the last load
    lecturas,           \* FileReader reads in flight (their onload not yet run)
    ultimo,             \* the last operation taken, its input and the state it was taken in
    peticiones,         \* API-backed page: requests sent whose response has not come
    fn,                 \* function harness: which function was applied
    entrada,            \* function harness: the input
    salida              \* function harness: the output

vars == <<cartones, historialPalabras, rondas, rondaIndex, ganadores, mensajeRonda,
          partidaTerminada, bancosPalabras, bancosLoading, juegoIniciado,
          errorPalabra, erroresCarga, lecturas, ultimo, peticiones, fn, entrada, salida>>

sessionVars == <<cartones, historialPalabras, rondas, rondaIndex, ganadores, mensajeRonda,
                 partidaTerminada, bancosPalabras, bancosLoading, juegoIniciado,
                 errorPalabra, erroresCarga, lecturas, ultimo, peticiones>>

harnessVars == <<fn, entrada, salida>>

apiVars == <<peticiones>>

(***************************************************************************)
(* Bounds of the model.                                                    *)
(***************************************************************************)
MaxLen == 3         \* longest word list handed to mergeSort / binarySearchMark
MaxCands == 3       \* longest candidate list handed to checkWinnersGreedy
MaxLineas == 2      \* most lines in one loaded text
MaxCartones == 2    \* most cards in the session
MaxHistorial == 2   \* most accepted calls in one round
MaxLecturas == 1    \* most file reads in flight
MaxLineasParse == 3 \* most lines in a text handed to the parser on its own
MaxPeticiones == 2  \* most API requests awaiting their response

(***************************************************************************)
(* Strings.                                                                *)
(***************************************************************************)
\* UTF-16 code unit of each character the model uses.
CharCode(c) ==
    CASE c = "\t" -> 9
      [] c = " " -> 32
      [] c = "1" -> 49
      [] c = "2" -> 50
      [] c = "3" -> 51
      [] c = "D" -> 68
      [] c = "E" -> 69
      [] c = "J" -> 74
      [] c = "N" -> 78
      [] c = "P" -> 80
      [] c = "S" -> 83
      [] c = "T" -> 84
      [] c = "X" -> 88
      [] c = "a" -> 97
      [] c = "b" -> 98
      [] c = "c" -> 99

\* a < b on JavaScript strings.
RECURSIVE StrLess(_, _)
StrLess(a, b) ==
    IF b = <<>> THEN FALSE
    ELSE IF a = <<>> THEN TRUE
    ELSE IF CharCode(Head(a)) < CharCode(Head(b)) THEN TRUE
    ELSE IF CharCode(Head(a)) > CharCode(Head(b)) THEN FALSE
    ELSE StrLess(Tail(a), Tail(b))

\* The words the model calls and writes on cards: "a" < "ab" < "b" < "c".
Wa == <<"a">>
Wab == <<"a", "b">>
Wb == <<"b">>
Wc == <<"c">>
Palabras == {Wa, Wab, Wb, Wc}

(***************************************************************************)
(* mergeSort                                                               *)
(***************************************************************************)
\* merge without its last concat: the rest of the right half is lost.
RECURSIVE mergeLoopSinResto(_, _, _, _, _)
mergeLoopSinResto(left, right, leftIndex, rightIndex, result) ==
    IF leftIndex < Len(left) /\ rightIndex < Len(right)
    THEN IF StrLess(left[leftIndex + 1], right[rightIndex + 1])
         THEN mergeLoopSinResto(left, right, leftIndex + 1, rightIndex,
                                Append(result, left[leftIndex + 1]))
         ELSE mergeLoopSinResto(left, right, leftIndex, rightIndex + 1,
                                Append(result, right[rightIndex + 1]))
    ELSE result \o SubSeq(left, leftIndex + 1, Len(left))

\* The while loop of merge, then the two concat calls.
RECURSIVE mergeLoop(_, _, _, _, _)
mergeLoop(left, right, leftIndex, rightIndex, result) ==
    IF leftIndex < Len(left) /\ rightIndex < Len(right)
    THEN IF StrLess(left[leftIndex + 1], right[rightIndex + 1])
         THEN mergeLoop(left, right, leftIndex + 1, rightIndex,
                        Append(result, left[leftIndex + 1]))
         ELSE mergeLoop(left, right, leftIndex, rightIndex + 1,
                        Append(result, right[rightIndex + 1]))
    ELSE result \o SubSeq(left, leftIndex + 1, Len(left))
                \o SubSeq(right, rightIndex + 1, Len(right))

merge(left, right) == mergeLoop(left, right, 0, 0, <<>>)

RECURSIVE mergeSort(_)
mergeSort(arr) ==
    IF Len(arr) <= 1 THEN arr
    ELSE LET mid == Len(arr) \div 2
             left == SubSeq(arr, 1, mid)
             right == SubSeq(arr, mid + 1, Len(arr))
         IN  merge(mergeSort(left), mergeSort(right))

\* The same merge and mergeSort run on the positions of arr, so that the
\* element taken at each step can be told from an equal one: left and right
\* hold positions and the comparison is between the strings at them.
RECURSIVE mergeLoopPos(_, _, _, _, _, _)
mergeLoopPos(arr, left, right, leftIndex, rightIndex, result) ==
    IF leftIndex < Len(left) /\ rightIndex < Len(right)
    THEN IF StrLess(arr[left[leftIndex + 1]], arr[right[rightIndex + 1]])
         THEN mergeLoopPos(arr, left, right, leftIndex + 1, rightIndex,
                           Append(result, left[leftIndex + 1]))
         ELSE mergeLoopPos(arr, left, right, leftIndex, rightIndex + 1,
                           Append(result, right[rightIndex + 1]))
    ELSE result \o SubSeq(left, leftIndex + 1, Len(left))
                \o SubSeq(right, rightIndex + 1, Len(right))

RECURSIVE mergeSortPos(_, _)
mergeSortPos(arr, pos) ==
    IF Len(pos) <= 1 THEN pos
    ELSE LET mid == Len(pos) \div 2
             left == SubSeq(pos, 1, mid)
             right == SubSeq(pos, mid + 1, Len(pos))
         IN  mergeLoopPos(arr, mergeSortPos(arr, left), mergeSortPos(arr, right), 0, 0, <<>>)

(***************************************************************************)
(* Cards.                                                                  *)
(***************************************************************************)
SP == <<"S", "P">>
EN == <<"E", "N">>
PT == <<"P", "T">>
DT == <<"D", "T">>
Idiomas == {SP, EN, PT, DT}

\* LIMITES: maximum words allowed per language.
LIMITES(idioma) ==
    CASE idioma = SP -> 24
      [] idioma = EN -> 14
      [] idioma = PT -> 20
      [] idioma = DT -> 10

\* The Carton literal with the language's maximum for limitePalabras.
NuevoCartonLimiteDeIdioma(id, jugador, idioma, palabrasOrdenadas) ==
    [id |-> id,
     jugador |-> jugador,
     idioma |-> idioma,
     palabras |-> palabrasOrdenadas,
     marcadas |-> [i \in 1..Len(palabrasOrdenadas) |-> FALSE],
     totalAciertos |-> 0,
     limitePalabras |-> LIMITES(idioma),
     yaGano |-> FALSE]

\* The Carton literal processInputData pushes (yaGano is absent, hence falsy).
NuevoCarton(id, jugador, idioma, palabrasOrdenadas) ==
    [id |-> id,
     jugador |-> jugador,
     idioma |-> idioma,
     palabras |-> palabrasOrdenadas,
     marcadas |-> [i \in 1..Len(palabrasOrdenadas) |-> FALSE],
     totalAciertos |-> 0,
     limitePalabras |-> Len(palabrasOrdenadas),
     yaGano |-> FALSE]

(***************************************************************************)
(* binarySearchMark: the card after the call and the value returned.       *)
(***************************************************************************)
\* The hit branch without its guard: a repeated hit counts again.
marcarSinGuarda(carton, mid) ==
    [carton EXCEPT !.marcadas[mid + 1] = TRUE,
                   !.totalAciertos = carton.totalAciertos + 1]

\* The hit branch: mark the entry at mid unless it is marked already.
marcar(carton, mid) ==
    IF ~carton.marcadas[mid + 1]
    THEN [carton EXCEPT !.marcadas[mid + 1] = TRUE,
                        !.totalAciertos = carton.totalAciertos + 1]
    ELSE carton

\* The search with its halves exchanged: it looks left of a smaller midValue.
RECURSIVE binarySearchLoopInvertido(_, _, _, _)
binarySearchLoopInvertido(carton, palabra, left, right) ==
    IF left <= right
    THEN LET mid == (left + right) \div 2
             midValue == carton.palabras[mid + 1]
         IN  IF midValue = palabra
             THEN [carton |-> marcar(carton, mid), found |-> TRUE]
             ELSE IF StrLess(midValue, palabra)
                  THEN binarySearchLoopInvertido(carton, palabra, left, mid - 1)
                  ELSE binarySearchLoopInvertido(carton, palabra, mid + 1, right)
    ELSE [carton |-> carton, found |-> FALSE]

RECURSIVE binarySearchLoop(_, _, _, _)
binarySearchLoop(carton, palabra, left, right) ==
    IF left <= right
    THEN LET mid == (left + right) \div 2
             midValue == carton.palabras[mid + 1]
         IN  IF midValue = palabra
             THEN [carton |-> marcar(carton, mid), found |-> TRUE]
             ELSE IF StrLess(midValue, palabra)
                  THEN binarySearchLoop(carton, palabra, mid + 1, right)
                  ELSE binarySearchLoop(carton, palabra, left, mid - 1)
    ELSE [carton |-> carton, found |-> FALSE]

binarySearchMark(carton, palabra) ==
    binarySearchLoop(carton, palabra, 0, Len(carton.palabras) - 1)

(***************************************************************************)
(* checkWinnersGreedy: the caller's array after the call and the winners.  *)
(***************************************************************************)
missing(c) == c.limitePalabras - c.totalAciertos

\* Array.prototype.sort with the comparator missingA - missingB.  The sort is
\* stable (ECMAScript 2019; the project requires Node 18+): an element goes
\* after every element already placed whose key is not greater.
RECURSIVE insertar(_, _)
insertar(sorted, c) ==
    IF sorted = <<>> THEN <<c>>
    ELSE IF missing(sorted[Len(sorted)]) - missing(c) > 0
         THEN Append(insertar(SubSeq(sorted, 1, Len(sorted) - 1), c), sorted[Len(sorted)])
         ELSE Append(sorted, c)

\* No sort at all: the scan runs over the candidates as given.
sortCandidatesOmitido(candidates, n) == candidates

RECURSIVE sortCandidates(_, _)
sortCandidates(candidates, n) ==
    IF n = 0 THEN <<>>
    ELSE insertar(sortCandidates(candidates, n - 1), candidates[n])

\* The scan leaving the loop at its first winner.
scanWinnersSoloPrimero(candidates, k, winners) ==
    IF k > Len(candidates) THEN winners
    ELSE IF candidates[k].totalAciertos = candidates[k].limitePalabras
         THEN Append(winners, candidates[k])
         ELSE winners

\* for (const carton of candidates) { push or break }
RECURSIVE scanWinners(_, _, _)
scanWinners(candidates, k, winners) ==
    IF k > Len(candidates) THEN winners
    ELSE IF candidates[k].totalAciertos = candidates[k].limitePalabras
         THEN scanWinners(candidates, k + 1, Append(winners, candidates[k]))
         ELSE winners

checkWinnersGreedy(cs) ==
    LET candidates == sortCandidates(cs, Len(cs))
    IN  [cartones |-> cs, winners |-> scanWinners(candidates, 1, <<>>)]

(***************************************************************************)
(* generateRandomRounds.  draws[i] is the value of                         *)
(* Math.floor(Math.random() * (i + 1)) at loop index i, one of 0..i.       *)
(***************************************************************************)
DrawSeqs(n) == [1..(n - 1) -> 0..(n - 1)]

\* A draw over the whole array at every index (Math.random() * idiomas.length).
ValidDrawsSinCota(n) == DrawSeqs(n)

ValidDraws(n) == {d \in DrawSeqs(n) : \A i \in 1..(n - 1) : d[i] <= i}

\* An assignment in place of the exchange: idiomas[i] = idiomas[j] alone.
swapSoloCopia(idiomas, i, j) == [idiomas EXCEPT ![i + 1] = idiomas[j + 1]]

swap(idiomas, i, j) ==
    [idiomas EXCEPT ![i + 1] = idiomas[j + 1], ![j + 1] = idiomas[i + 1]]

RECURSIVE shuffleLoop(_, _, _)
shuffleLoop(idiomas, i, draws) ==
    IF i > 0
    THEN shuffleLoop(swap(idiomas, i, draws[i]), i - 1, draws)
    ELSE idiomas

generateRandomRounds(idiomasDisponibles, draws) ==
    [idiomasDisponibles |-> idiomasDisponibles,
     rondas |-> shuffleLoop(idiomasDisponibles, Len(idiomasDisponibles) - 1, draws)]

(***************************************************************************)
(* processInputData.  The text is the sequence of its lines (what          *)
(* text.split(/\r?\n/) returns); a line is a sequence of characters.       *)
(***************************************************************************)
\* What \s and trim() take for white space, among the model's characters.
IsSpace(c) == c \in {" ", "\t"}

RECURSIVE TrimStart(_)
TrimStart(line) ==
    IF line # <<>> /\ IsSpace(Head(line)) THEN TrimStart(Tail(line)) ELSE line

RECURSIVE TrimEnd(_)
TrimEnd(line) ==
    IF line # <<>> /\ IsSpace(line[Len(line)])
    THEN TrimEnd(SubSeq(line, 1, Len(line) - 1))
    ELSE line

\* rawLine.trim()
Trim(line) == TrimEnd(TrimStart(line))

\* line.split(/\s+/) of a trimmed, non-empty line: `parts` are the tokens
\* closed so far and `token` the one being read.
RECURSIVE SplitLoop(_, _, _)
SplitLoop(line, parts, token) ==
    IF line = <<>> THEN Append(parts, token)
    ELSE IF IsSpace(Head(line))
         THEN SplitLoop(TrimStart(line), Append(parts, token), <<>>)
         ELSE SplitLoop(Tail(line), parts, Append(token, Head(line)))

SplitWs(line) == SplitLoop(line, <<>>, <<>>)

\* line.startsWith("J") && line.length > 1 && line.length < 10 && !line.includes(" ")
EsLineaJugador(line) ==
    /\ Len(line) >= 1 /\ line[1] = "J"
    /\ Len(line) > 1
    /\ Len(line) < 10
    /\ ~\E i \in 1..Len(line) : line[i] = " "

\* One entry of `errores`: the line number, which message it is, and the
\* values the message interpolates (the id; the words or the limit).
ErrorDeLinea(lineNumber, tipo, id, detalle) ==
    [linea |-> lineNumber, tipo |-> tipo, id |-> id, detalle |-> detalle]

\* The limit test off by one: a line of maxPermitido + 1 words passes.
excedeLimiteMasUno(palabrasRaw, maxPermitido) == Len(palabrasRaw) > maxPermitido + 1

\* palabrasRaw.length > maxPermitido
excedeLimite(palabrasRaw, maxPermitido) == Len(palabrasRaw) > maxPermitido

\* The dictionary test without its size check: an empty Set passes.
bancoNoCargadoSinSize(banco) == ~banco.cargado

\* !banco || banco.size === 0
bancoNoCargado(banco) == ~banco.cargado \/ banco.palabras = {}

\* find in place of filter: the first word that is not allowed, alone.
palabrasInvalidasSoloPrimera(palabrasRaw, banco) ==
    LET NoPermitida(w) == w \notin banco.palabras
        todas == SelectSeq(palabrasRaw, NoPermitida)
    IN  IF todas = <<>> THEN <<>> ELSE <<todas[1]>>

\* palabrasRaw.filter((p) => !banco.has(p))
palabrasInvalidasDe(palabrasRaw, banco) ==
    LET NoPermitida(w) == w \notin banco.palabras
    IN  SelectSeq(palabrasRaw, NoPermitida)

\* The body of the for loop for the line numbered lineNumber, then the rest.
\* bancosPalabras[idioma] is [cargado, palabras]; cargado is FALSE when the
\* key is absent.
RECURSIVE processLines(_, _, _, _, _, _)
processLines(lines, lineNumber, bancos, jugadorActual, cs, errores) ==
    IF lineNumber > Len(lines) THEN [cartones |-> cs, errores |-> errores]
    ELSE
    LET line == Trim(lines[lineNumber])
        parts == SplitWs(line)
        id == parts[1]
        idiomaCode == SubSeq(id, 1, 2)
        palabrasRaw == Tail(parts)
        banco == bancos[idiomaCode]
        palabrasInvalidas == palabrasInvalidasDe(palabrasRaw, banco)
        palabrasOrdenadas == mergeSort(palabrasRaw)
        Sigue(j, c, e) == processLines(lines, lineNumber + 1, bancos, j, c, e)
    IN  IF line = <<>> THEN Sigue(jugadorActual, cs, errores)
        ELSE IF EsLineaJugador(line) THEN Sigue(line, cs, errores)
        ELSE IF jugadorActual = <<>>
             THEN Sigue(jugadorActual, cs,
                        Append(errores, ErrorDeLinea(lineNumber, "sin_jugador", <<>>, <<>>)))
        ELSE IF Len(parts) < 2 THEN Sigue(jugadorActual, cs, errores)
        ELSE IF Len(id) < 3
             THEN Sigue(jugadorActual, cs,
                        Append(errores, ErrorDeLinea(lineNumber, "id_invalido", id, <<>>)))
        ELSE IF idiomaCode \notin Idiomas
             THEN Sigue(jugadorActual, cs,
                        Append(errores, ErrorDeLinea(lineNumber, "idioma_desconocido", id, <<>>)))
        ELSE IF excedeLimite(palabrasRaw, LIMITES(idiomaCode))
             THEN Sigue(jugadorActual, cs,
                        Append(errores, ErrorDeLinea(lineNumber, "excede_limite", id,
                                                     <<LIMITES(idiomaCode)>>)))
        ELSE IF bancoNoCargado(banco)
             THEN Sigue(jugadorActual, cs,
                        Append(errores, ErrorDeLinea(lineNumber, "banco_no_cargado",
                                                     idiomaCode, <<>>)))
        ELSE IF Len(palabrasInvalidas) > 0
             THEN Sigue(jugadorActual, cs,
                        Append(errores, ErrorDeLinea(lineNumber, "palabras_no_permitidas", id,
                                                     palabrasInvalidas)))
        ELSE Sigue(jugadorActual,
                   Append(cs, NuevoCarton(id, jugadorActual, idiomaCode, palabrasOrdenadas)),
                   errores)

\* The parse given up at its first error: the lines after it are not read.
processInputDataAborta(text, bancos) ==
    LET r == processLines(text, 1, bancos, <<>>, <<>>, <<>>)
    IN  IF r.errores = <<>> THEN r
        ELSE processLines(SubSeq(text, 1, r.errores[1].linea), 1, bancos, <<>>, <<>>, <<>>)

\* processInputData declares two parameters: a third argument handed to it
\* (the callers pass idsExistentes) is dropped by the call.
processInputData(text, bancos) == processLines(text, 1, bancos, <<>>, <<>>, <<>>)

(***************************************************************************)
(* The session before anything has happened (the useState initial values). *)
(***************************************************************************)
SinBanco == [cargado |-> FALSE, palabras |-> {}]

SessionInit ==
    /\ cartones = <<>>
    /\ historialPalabras = <<>>
    /\ rondas = <<>>
    /\ rondaIndex = 0
    /\ ganadores = <<>>
    /\ mensajeRonda = "none"
    /\ partidaTerminada = FALSE
    /\ bancosPalabras = [l \in Idiomas |-> SinBanco]
    /\ bancosLoading = TRUE
    /\ juegoIniciado = FALSE
    /\ errorPalabra = "none"
    /\ erroresCarga = <<>>
    /\ lecturas = <<>>
    /\ ultimo = [op |-> "carga", palabra |-> <<>>, fase |-> "Setup"]
    /\ peticiones = <<>>

\* The state of the session: Setup until the game is started, Finished once
\* partidaTerminada, RoundWon while the round has winners, else RoundActive.
Fase ==
    IF ~juegoIniciado THEN "Setup"
    ELSE IF partidaTerminada THEN "Finished"
    ELSE IF Len(ganadores) > 0 THEN "RoundWon"
    ELSE "RoundActive"

(***************************************************************************)
(* Inputs of the session.                                                  *)
(***************************************************************************)
J1 == <<"J", "1">>
SP1 == <<"S", "P", "1">>
SP2 == <<"S", "P", "2">>
SP3 == <<"S", "P", "3">>
EN1 == <<"E", "N", "1">>

\* The tokens of a line joined by single spaces.
RECURSIVE Unir(_)
Unir(tokens) ==
    IF Len(tokens) = 1 THEN tokens[1]
    ELSE tokens[1] \o <<" ">> \o Unir(Tail(tokens))

\* The card lines of a typed text: cards of two languages and a card with a
\* word that is not in its dictionary.  A line may be given twice.
LineasDeCarton ==
    {Unir(<<SP1, Wb, Wa>>),
     Unir(<<SP2, Wa>>),
     Unir(<<EN1, Wc>>),
     Unir(<<SP3, Wc>>)}

\* A typed text: the owner line J1, then card lines.
TextosSesion ==
    UNION {{<<J1>> \o t : t \in [1..n -> LineasDeCarton]} : n \in 1..(MaxLineas - 1)}

\* A file: one of two texts with a card, or an empty file.
TextosArchivo ==
    {<<J1, Unir(<<SP1, Wb, Wa>>)>>,
     <<J1, Unir(<<EN1, Wc>>)>>,
     <<<<>>>>}

\* Typed texts of one card each: a card of two words, a card with the same
\* id and one of the two words, a card with a word given twice, and a card
\* of another language.
TextosCartones ==
    {<<J1, Unir(<<SP1, Wb, Wa>>)>>,
     <<J1, Unir(<<SP1, Wa>>)>>,
     <<J1, Unir(<<SP2, Wa, Wa>>)>>,
     <<J1, Unir(<<EN1, Wc>>)>>}

\* What the user types into the word box.
PalabrasCantadas == {Wa, Wb, Wc, <<" ", "b">>, <<>>}

\* The dictionary file of each language, as the set of words it lists.
BancoOficial(l) ==
    CASE l = SP -> {Wa, Wb}
      [] l = EN -> {Wb, Wc}
      [] l = PT -> {Wa}
      [] l = DT -> {Wc}

\* Which fetches answer with a response that is not ok.
FetchesQueFallan == {{}, {EN}}

(***************************************************************************)
(* The session's operations (the handlers of BingoPage).                   *)
(***************************************************************************)
\* loadBancos: every fetch answers, the languages in `fallan` with a
\* response that is not ok (an empty Set); or a fetch throws and the
\* dictionaries are left as {}.
LoadBancos ==
    /\ bancosLoading
    /\ \/ \E fallan \in FetchesQueFallan :
             bancosPalabras' =
                 [l \in Idiomas |->
                     [cargado |-> TRUE,
                      palabras |-> IF l \in fallan THEN {} ELSE BancoOficial(l)]]
       \/ bancosPalabras' = [l \in Idiomas |-> SinBanco]
    /\ bancosLoading' = FALSE
    /\ ultimo' = [op |-> "carga", palabra |-> <<>>, fase |-> Fase]
    /\ UNCHANGED <<cartones, historialPalabras, rondas, rondaIndex, ganadores, mensajeRonda,
                   partidaTerminada, juegoIniciado, errorPalabra, erroresCarga,
                   lecturas, harnessVars, apiVars>>

\* new Set(cartones.map((c) => c.id))
IdsDe(cs) == {cs[i].id : i \in 1..Len(cs)}

\* !text, and !manualInputText.trim(): no character but white space.
EsVacio(text) == Len(text) = 1 /\ text[1] = <<>>
EsBlanco(text) == \A i \in 1..Len(text) : Trim(text[i]) = <<>>

\* handleFileUpload up to reader.readAsText.  The onload callback also keeps
\* the cartones of the render that made it, from which it builds
\* idsExistentes; processInputData has no parameter for it, so the value is
\* never read and the read in flight is its text alone.
handleFileUpload(text) ==
    /\ ultimo' = [op |-> "carga", palabra |-> <<>>, fase |-> Fase]
    /\ IF bancosLoading
       THEN UNCHANGED <<erroresCarga, lecturas>>
       ELSE /\ Len(lecturas) < MaxLecturas
            /\ erroresCarga' = <<>>
            /\ lecturas' = Append(lecturas, text)
    /\ UNCHANGED <<cartones, historialPalabras, rondas, rondaIndex, ganadores, mensajeRonda,
                   partidaTerminada, bancosPalabras, bancosLoading, juegoIniciado,
                   errorPalabra, harnessVars, apiVars>>

\* reader.onload of the k-th read in flight.
FileReaderOnload(k) ==
    /\ k \in 1..Len(lecturas)
    /\ LET text == lecturas[k]
           r == processInputData(text, bancosPalabras)
       IN  IF EsVacio(text)
           THEN UNCHANGED <<cartones, erroresCarga>>
           ELSE /\ Len(cartones) + Len(r.cartones) <= MaxCartones
                /\ cartones' = cartones \o r.cartones
                /\ erroresCarga' = r.errores
    /\ lecturas' = SubSeq(lecturas, 1, k - 1) \o SubSeq(lecturas, k + 1, Len(lecturas))
    /\ ultimo' = [op |-> "carga", palabra |-> <<>>, fase |-> Fase]
    /\ UNCHANGED <<historialPalabras, rondas, rondaIndex, ganadores, mensajeRonda,
                   partidaTerminada, bancosPalabras, bancosLoading, juegoIniciado,
                   errorPalabra, harnessVars, apiVars>>

\* setErroresCarga(errores) when there are errors, setErroresCarga([]) when
\* there are none: erroresCarga becomes errores either way.
handleManualSubmit(manualInputText) ==
    /\ ultimo' = [op |-> "carga", palabra |-> <<>>, fase |-> Fase]
    /\ LET r == processInputData(manualInputText, bancosPalabras)
       IN  IF bancosLoading \/ EsBlanco(manualInputText)
           THEN UNCHANGED <<cartones, erroresCarga>>
           ELSE IF Len(r.errores) > 0 /\ Len(r.cartones) = 0
           THEN /\ erroresCarga' = r.errores
                /\ UNCHANGED cartones
           ELSE /\ Len(cartones) + Len(r.cartones) <= MaxCartones
                /\ erroresCarga' = r.errores
                /\ cartones' = cartones \o r.cartones
    /\ UNCHANGED <<historialPalabras, rondas, rondaIndex, ganadores, mensajeRonda,
                   partidaTerminada, bancosPalabras, bancosLoading, juegoIniciado,
                   errorPalabra, lecturas, harnessVars, apiVars>>

\* Array.from(new Set(cartones.map((c) => c.idioma))): first occurrences, in order.
RECURSIVE idiomasActivosDe(_, _)
idiomasActivosDe(cs, n) ==
    IF n = 0 THEN <<>>
    ELSE LET antes == idiomasActivosDe(cs, n - 1)
         IN  IF \E i \in 1..Len(antes) : antes[i] = cs[n].idioma
             THEN antes
             ELSE Append(antes, cs[n].idioma)

handleStartGame ==
    /\ ultimo' = [op |-> "iniciar", palabra |-> <<>>, fase |-> Fase]
    /\ LET idiomasActivos == idiomasActivosDe(cartones, Len(cartones))
       IN  IF Len(cartones) = 0 \/ Len(idiomasActivos) = 0
           THEN UNCHANGED <<rondas, rondaIndex, juegoIniciado, historialPalabras, ganadores,
                            errorPalabra, mensajeRonda, partidaTerminada>>
           ELSE /\ \E draws \in ValidDraws(Len(idiomasActivos)) :
                      rondas' = generateRandomRounds(idiomasActivos, draws).rondas
                /\ rondaIndex' = 0
                /\ juegoIniciado' = TRUE
                /\ historialPalabras' = <<>>
                /\ ganadores' = <<>>
                /\ errorPalabra' = "none"
                /\ mensajeRonda' = "none"
                /\ partidaTerminada' = FALSE
    /\ UNCHANGED <<cartones, bancosPalabras, bancosLoading, erroresCarga,
                   lecturas, harnessVars, apiVars>>

\* const idiomaActual = !partidaTerminada ? rondas[rondaIndex] : null;
\* <<>> stands for null and for undefined (an index past the end).
idiomaActual ==
    IF ~partidaTerminada /\ rondaIndex < Len(rondas) THEN rondas[rondaIndex + 1] ELSE <<>>

rondaBloqueada == Len(ganadores) > 0

\* The first guard of handleCantarPalabra with rondaBloqueada forgotten.
llamadaFueraDeRondaSinBloqueo == idiomaActual = <<>>

\* if (!idiomaActual || rondaBloqueada) return;
llamadaFueraDeRonda == idiomaActual = <<>> \/ rondaBloqueada

\* The dictionary check left out.
noExisteEnBancoOmitido(bancoActual, palabraNormalizada) == FALSE

\* bancoActual && !bancoActual.has(palabraNormalizada)
noExisteEnBanco(bancoActual, palabraNormalizada) ==
    bancoActual.cargado /\ palabraNormalizada \notin bancoActual.palabras

\* The marking loop without its language test: every card that has not won.
marcarCartonesSinIdioma(cs, idioma, palabra) ==
    [i \in 1..Len(cs) |->
        IF ~cs[i].yaGano THEN binarySearchMark(cs[i], palabra).carton ELSE cs[i]]

\* The marking loop of handleCantarPalabra.
marcarCartones(cs, idioma, palabra) ==
    [i \in 1..Len(cs) |->
        IF cs[i].idioma = idioma /\ ~cs[i].yaGano
        THEN binarySearchMark(cs[i], palabra).carton
        ELSE cs[i]]

\* The filter of the candidates without its !c.yaGano.
EsCandidatoSinYaGano(c) == c.idioma = idiomaActual

\* (c) => c.idioma === idiomaActual && !c.yaGano
EsCandidato(c) == c.idioma = idiomaActual /\ ~c.yaGano

\* yaGano = true on every card whose id is the id of a winner.
marcarGanadores(cs, nuevosGanadores) ==
    [i \in 1..Len(cs) |->
        IF cs[i].id \in IdsDe(nuevosGanadores) THEN [cs[i] EXCEPT !.yaGano = TRUE] ELSE cs[i]]

\* The word put at the end of the history.
agregarAlHistorialAlFinal(prev, palabra) == Append(prev, palabra)

\* (prev) => [palabraNormalizada, ...prev]
agregarAlHistorial(prev, palabra) == <<palabra>> \o prev

handleCantarPalabra(palabraActual) ==
    /\ ultimo' = [op |-> "cantar", palabra |-> palabraActual, fase |-> Fase]
    /\ LET palabraNormalizada == Trim(palabraActual)
           bancoActual == bancosPalabras[idiomaActual]
           marcados == marcarCartones(cartones, idiomaActual, palabraNormalizada)
           candidatosValidos == SelectSeq(marcados, EsCandidato)
           nuevosGanadores == checkWinnersGreedy(candidatosValidos).winners
       IN  IF llamadaFueraDeRonda
           THEN UNCHANGED <<cartones, historialPalabras, ganadores, mensajeRonda,
                            errorPalabra>>
           ELSE IF palabraNormalizada = <<>>
           THEN /\ errorPalabra' = "none"
                /\ mensajeRonda' = "none"
                /\ UNCHANGED <<cartones, historialPalabras, ganadores>>
           ELSE IF noExisteEnBanco(bancoActual, palabraNormalizada)
           THEN /\ errorPalabra' = "no_existe"
                /\ mensajeRonda' = "none"
                /\ UNCHANGED <<cartones, historialPalabras, ganadores>>
           ELSE /\ Len(historialPalabras) < MaxHistorial
                /\ errorPalabra' = "none"
                /\ IF Len(nuevosGanadores) > 0
                   THEN /\ cartones' = marcarGanadores(marcados, nuevosGanadores)
                        /\ ganadores' = marcarGanadores(nuevosGanadores, nuevosGanadores)
                        /\ mensajeRonda' = "none"
                   ELSE /\ cartones' = marcados
                        /\ ganadores' = ganadores
                        /\ mensajeRonda' = "sin_ganadores"
                /\ historialPalabras' = agregarAlHistorial(historialPalabras, palabraNormalizada)
    /\ UNCHANGED <<rondas, rondaIndex, partidaTerminada, bancosPalabras, bancosLoading,
                   juegoIniciado, erroresCarga, lecturas, harnessVars, apiVars>>

avanzarRonda ==
    /\ ultimo' = [op |-> "avanzar", palabra |-> <<>>, fase |-> Fase]
    /\ IF rondaIndex >= Len(rondas) - 1
       THEN /\ partidaTerminada' = TRUE
            /\ mensajeRonda' = "partida_completa"
            /\ UNCHANGED <<rondaIndex, errorPalabra, historialPalabras, ganadores>>
       ELSE /\ rondaIndex' = rondaIndex + 1
            /\ errorPalabra' = "none"
            /\ mensajeRonda' = "none"
            /\ historialPalabras' = <<>>
            /\ ganadores' = <<>>
            /\ UNCHANGED partidaTerminada
    /\ UNCHANGED <<cartones, rondas, bancosPalabras, bancosLoading, juegoIniciado,
                   erroresCarga, lecturas, harnessVars, apiVars>>

(***************************************************************************)
(* The page.  A handler runs when its control is rendered and enabled.     *)
(***************************************************************************)
\* The setup section rendered whether or not the game has started.
SeccionConfiguracionSiempre == TRUE

\* The setup section: {!juegoIniciado ? (...)}.
SeccionConfiguracion == ~juegoIniciado

\* The word box and the CANTAR button: rendered in the game section while
\* !partidaTerminada, disabled={rondaBloqueada}.
ControlCantar == juegoIniciado /\ ~partidaTerminada /\ ~rondaBloqueada

\* The advance button rendered in the game section whatever the winner list.
ControlAvanzarSiempre == juegoIniciado

\* The advance button: rendered in the game section while ganadores.length > 0.
ControlAvanzar == juegoIniciado /\ Len(ganadores) > 0

Init ==
    /\ SessionInit
    /\ fn = "none"
    /\ entrada = <<>>
    /\ salida = <<>>

FileUpload == SeccionConfiguracion /\ \E text \in TextosArchivo : handleFileUpload(text)

ReaderOnload == \E k \in 1..MaxLecturas : FileReaderOnload(k)

ManualSubmit ==
    /\ SeccionConfiguracion /\ ~bancosLoading
    /\ \E text \in TextosSesion : handleManualSubmit(text)

\* The start button outside the setup section: enabled by its own condition alone.
StartGameSinSeccion ==
    /\ ~(Len(cartones) = 0 \/ bancosLoading)
    /\ handleStartGame

StartGame ==
    /\ SeccionConfiguracion /\ ~(Len(cartones) = 0 \/ bancosLoading)
    /\ handleStartGame

CantarPalabra == ControlCantar /\ \E w \in PalabrasCantadas : handleCantarPalabra(w)

AvanzarRonda == ControlAvanzar /\ avanzarRonda

Next ==
    \/ LoadBancos
    \/ FileUpload
    \/ ReaderOnload
    \/ ManualSubmit
    \/ StartGame
    \/ CantarPalabra
    \/ AvanzarRonda

Spec == Init /\ [][Next]_vars

(***************************************************************************)
(* The page with cards typed in one at a time, among them cards that share *)
(* an id and a card that holds a word twice.                               *)
(***************************************************************************)
SubmitCarton ==
    /\ SeccionConfiguracion /\ ~bancosLoading
    /\ \E text \in TextosCartones : handleManualSubmit(text)

NextCartones ==
    \/ LoadBancos
    \/ SubmitCarton
    \/ StartGame
    \/ CantarPalabra
    \/ AvanzarRonda

SpecCartones == Init /\ [][NextCartones]_vars

(***************************************************************************)
(* The handlers on their own: each may be invoked in any state, as when    *)
(* they are the operations a caller is given, and its own guards decide.   *)
(* Cards are typed in; reading a file is part of Spec.                     *)
(***************************************************************************)
InvocaManualSubmit == \E text \in TextosArchivo : handleManualSubmit(text)

InvocaStartGame == handleStartGame

InvocaCantarPalabra == \E w \in PalabrasCantadas : handleCantarPalabra(w)

InvocaAvanzarRonda == avanzarRonda

NextHandlers ==
    \/ LoadBancos
    \/ InvocaManualSubmit
    \/ InvocaStartGame
    \/ InvocaCantarPalabra
    \/ InvocaAvanzarRonda

SpecHandlers == Init /\ [][NextHandlers]_vars

(***************************************************************************)
(* The API-backed page (src/unnamed/part_000).  Its handlers send a        *)
(* request and go on when the response comes; other events run in between. *)
(* The server is not part of the sources: an endpoint answers what the     *)
(* specification says of the component it exposes.  `loading` is true      *)
(* exactly while a /process-cards request of the manual form is awaited.   *)
(***************************************************************************)
BancosServidor == [l \in Idiomas |-> [cargado |-> TRUE, palabras |-> BancoOficial(l)]]

\* The cards of cs whose id is neither known nor met earlier in cs.
RECURSIVE SinDuplicados(_, _, _)
SinDuplicados(cs, n, conocidos) ==
    IF n = 0 THEN <<>>
    ELSE LET antes == SinDuplicados(cs, n - 1, conocidos)
         IN  IF cs[n].id \in conocidos \cup IdsDe(antes) THEN antes ELSE Append(antes, cs[n])

\* POST /process-cards: the card parser with the ids already known.
ApiProcessCards(text, existingIds) ==
    LET r == processInputData(text, BancosServidor)
        nuevos == SinDuplicados(r.cartones, Len(r.cartones), existingIds)
    IN  [cartones |-> nuevos,
         errores |-> IF Len(nuevos) < Len(r.cartones)
                     THEN Append(r.errores, ErrorDeLinea(0, "id_duplicado", <<>>, <<>>))
                     ELSE r.errores]

\* POST /generate-rounds
ApiGenerateRounds(idiomasDisponibles, draws) ==
    generateRandomRounds(idiomasDisponibles, draws).rondas

\* POST /call-word: the marking engine over the cards of the request.
ApiCallWord(cs, palabra, idioma) == marcarCartones(cs, idioma, palabra)

\* POST /check-winners
ApiCheckWinners(cs) == checkWinnersGreedy(cs).winners

\* A request in flight: its endpoint and what the handler that sent it holds
\* in its closure (the text, the cartones of its render, the word, the language).
Peticion(tipo, text, cs, palabra, idioma) ==
    [tipo |-> tipo, text |-> text, cartones |-> cs, palabra |-> palabra, idioma |-> idioma]

SinPeticion(k) == SubSeq(peticiones, 1, k - 1) \o SubSeq(peticiones, k + 1, Len(peticiones))

apiLoading == \E k \in 1..Len(peticiones) : peticiones[k].tipo = "process-cards"

TextosApi == {<<J1, Unir(<<SP1, Wb, Wa>>)>>, <<J1, Unir(<<SP2, Wa>>)>>}

PalabrasApi == {Wa, Wb, Wc}

\* loadBancos: GET /word-banks answers, or the request fails.
ApiLoadBancos ==
    /\ bancosLoading
    /\ \/ bancosPalabras' = BancosServidor
       \/ bancosPalabras' = [l \in Idiomas |-> SinBanco]
    /\ bancosLoading' = FALSE
    /\ ultimo' = [op |-> "carga", palabra |-> <<>>, fase |-> Fase]
    /\ UNCHANGED <<cartones, historialPalabras, rondas, rondaIndex, ganadores, mensajeRonda,
                   partidaTerminada, juegoIniciado, errorPalabra, erroresCarga,
                   lecturas, harnessVars, apiVars>>

\* handleManualSubmit up to its await (button disabled={bancosLoading || loading}).
ApiManualSubmit ==
    /\ SeccionConfiguracion /\ ~(bancosLoading \/ apiLoading)
    /\ Len(peticiones) < MaxPeticiones
    /\ \E text \in TextosApi :
          peticiones' = Append(peticiones, Peticion("process-cards", text, cartones, <<>>, <<>>))
    /\ ultimo' = [op |-> "carga", palabra |-> <<>>, fase |-> Fase]
    /\ UNCHANGED <<cartones, historialPalabras, rondas, rondaIndex, ganadores, mensajeRonda,
                   partidaTerminada, bancosPalabras, bancosLoading, juegoIniciado,
                   errorPalabra, erroresCarga, lecturas, harnessVars>>

\* handleManualSubmit after its await: the response, or the catch.
ApiProcessCardsResponse ==
    \E k \in 1..Len(peticiones) :
        /\ peticiones[k].tipo = "process-cards"
        /\ LET r == ApiProcessCards(peticiones[k].text, IdsDe(peticiones[k].cartones))
           IN  \/ IF Len(r.errores) > 0 /\ Len(r.cartones) = 0
                  THEN /\ erroresCarga' = r.errores
                       /\ UNCHANGED cartones
                  ELSE /\ Len(cartones) + Len(r.cartones) <= MaxCartones
                       /\ erroresCarga' = r.errores
                       /\ cartones' = cartones \o r.cartones
               \/ UNCHANGED <<cartones, erroresCarga>>
        /\ peticiones' = SinPeticion(k)
        /\ ultimo' = [op |-> "respuesta", palabra |-> <<>>, fase |-> Fase]
        /\ UNCHANGED <<historialPalabras, rondas, rondaIndex, ganadores, mensajeRonda,
                       partidaTerminada, bancosPalabras, bancosLoading, juegoIniciado,
                       errorPalabra, lecturas, harnessVars>>

\* handleStartGame up to its await (button disabled={cartones.length === 0 || bancosLoading}).
ApiStartGame ==
    /\ SeccionConfiguracion /\ ~(Len(cartones) = 0 \/ bancosLoading)
    /\ Len(peticiones) < MaxPeticiones
    /\ peticiones' = Append(peticiones, Peticion("generate-rounds", <<>>, cartones, <<>>, <<>>))
    /\ ultimo' = [op |-> "iniciar", palabra |-> <<>>, fase |-> Fase]
    /\ UNCHANGED <<cartones, historialPalabras, rondas, rondaIndex, ganadores, mensajeRonda,
                   partidaTerminada, bancosPalabras, bancosLoading, juegoIniciado,
                   errorPalabra, erroresCarga, lecturas, harnessVars>>

\* handleStartGame after its await: the response, or the catch.
ApiGenerateRoundsResponse ==
    \E k \in 1..Len(peticiones) :
        /\ peticiones[k].tipo = "generate-rounds"
        /\ LET idiomasActivos ==
                   idiomasActivosDe(peticiones[k].cartones, Len(peticiones[k].cartones))
           IN  \/ /\ \E draws \in ValidDraws(Len(idiomasActivos)) :
                        rondas' = ApiGenerateRounds(idiomasActivos, draws)
                  /\ rondaIndex' = 0
                  /\ juegoIniciado' = TRUE
                  /\ historialPalabras' = <<>>
                  /\ ganadores' = <<>>
                  /\ errorPalabra' = "none"
                  /\ mensajeRonda' = "none"
                  /\ partidaTerminada' = FALSE
               \/ UNCHANGED <<rondas, rondaIndex, juegoIniciado, historialPalabras, ganadores,
                              errorPalabra, mensajeRonda, partidaTerminada>>
        /\ peticiones' = SinPeticion(k)
        /\ ultimo' = [op |-> "respuesta", palabra |-> <<>>, fase |-> Fase]
        /\ UNCHANGED <<cartones, bancosPalabras, bancosLoading, erroresCarga, lecturas,
                       harnessVars>>

\* handleCantarPalabra up to its first await.  The request carries the
\* cartones and the idiomaActual of the render the handler was made in.
ApiCantarPalabra ==
    /\ ControlCantar
    /\ \E palabraActual \in PalabrasApi :
          LET palabraNormalizada == Trim(palabraActual)
              bancoActual == bancosPalabras[idiomaActual]
          IN  /\ ultimo' = [op |-> "cantar", palabra |-> palabraActual, fase |-> Fase]
              /\ IF llamadaFueraDeRonda
                 THEN UNCHANGED <<mensajeRonda, errorPalabra, peticiones>>
                 ELSE IF palabraNormalizada = <<>>
                 THEN /\ errorPalabra' = "none"
                      /\ mensajeRonda' = "none"
                      /\ UNCHANGED peticiones
                 ELSE IF noExisteEnBanco(bancoActual, palabraNormalizada)
                 THEN /\ errorPalabra' = "no_existe"
                      /\ mensajeRonda' = "none"
                      /\ UNCHANGED peticiones
                 ELSE /\ Len(peticiones) < MaxPeticiones
                      /\ errorPalabra' = "none"
                      /\ mensajeRonda' = "none"
                      /\ peticiones' = Append(peticiones,
                                              Peticion("call-word", <<>>, cartones,
                                                       palabraNormalizada, idiomaActual))
    /\ UNCHANGED <<cartones, historialPalabras, ganadores, rondas, rondaIndex,
                   partidaTerminada, bancosPalabras, bancosLoading, juegoIniciado,
                   erroresCarga, lecturas, harnessVars>>

\* handleCantarPalabra after its awaits (/call-word, then /check-winners on
\* the cards of the first response): the state updates, or the catch.
ApiCallWordResponse ==
    \E k \in 1..Len(peticiones) :
        /\ peticiones[k].tipo = "call-word"
        /\ LET pet == peticiones[k]
               callResponse == ApiCallWord(pet.cartones, pet.palabra, pet.idioma)
               EsCandidatoApi(c) == c.idioma = pet.idioma /\ ~c.yaGano
               winners == ApiCheckWinners(SelectSeq(callResponse, EsCandidatoApi))
           IN  \/ /\ Len(historialPalabras) < MaxHistorial
                  /\ IF Len(winners) > 0
                     THEN /\ cartones' = marcarGanadores(callResponse, winners)
                          /\ ganadores' = winners
                          /\ mensajeRonda' = "none"
                     ELSE /\ cartones' = callResponse
                          /\ ganadores' = ganadores
                          /\ mensajeRonda' = "sin_ganadores"
                  /\ historialPalabras' = agregarAlHistorial(historialPalabras, pet.palabra)
               \/ UNCHANGED <<cartones, ganadores, mensajeRonda, historialPalabras>>
        /\ ultimo' = [op |-> "respuesta", palabra |-> peticiones[k].palabra, fase |-> Fase]
        /\ peticiones' = SinPeticion(k)
        /\ UNCHANGED <<rondas, rondaIndex, partidaTerminada, bancosPalabras, bancosLoading,
                       juegoIniciado, errorPalabra, erroresCarga, lecturas, harnessVars>>

\* avanzarRonda of the API-backed page: the same handler behind the same button.
ApiAvanzarRonda == ControlAvanzar /\ avanzarRonda

NextApi ==
    \/ ApiLoadBancos
    \/ ApiManualSubmit
    \/ ApiProcessCardsResponse
    \/ ApiStartGame
    \/ ApiGenerateRoundsResponse
    \/ ApiCantarPalabra
    \/ ApiCallWordResponse
    \/ ApiAvanzarRonda

SpecApi == Init /\ [][NextApi]_vars

(***************************************************************************)
(* Properties of the session.                                              *)
(***************************************************************************)
\* C1: after any sequence of loads no two cards of the session share an id.
C1_UniqueIds ==
    \A i, j \in 1..Len(cartones) : i # j => cartones[i].id # cartones[j].id

\* The elements of cs at the positions where mask holds, in order.
RECURSIVE Restringir(_, _, _)
Restringir(cs, mask, n) ==
    IF n = 0 THEN <<>>
    ELSE IF mask[n] THEN Append(Restringir(cs, mask, n - 1), cs[n])
         ELSE Restringir(cs, mask, n - 1)

\* a can be had from b by dropping elements.
RECURSIVE IsSubSeq(_, _)
IsSubSeq(a, b) ==
    IF a = <<>> THEN TRUE
    ELSE IF b = <<>> THEN FALSE
    ELSE IF Head(a) = Head(b) THEN IsSubSeq(Tail(a), Tail(b))
    ELSE IsSubSeq(a, Tail(b))

\* C6: once a card's yaGano is true, no later step changes its marcadas or
\* totalAciertos (nor its yaGano), and the winner list a later call declares
\* is drawn from the cards that had not won before that call.
C6_WonCardsFrozen ==
    [][/\ Len(cartones') >= Len(cartones)
       /\ \A i \in 1..Len(cartones) :
             cartones[i].yaGano =>
                 /\ cartones'[i].marcadas = cartones[i].marcadas
                 /\ cartones'[i].totalAciertos = cartones[i].totalAciertos
                 /\ cartones'[i].yaGano
       /\ (ultimo'.op = "cantar" /\ ganadores' # ganadores) =>
             IsSubSeq(ganadores',
                      Restringir(cartones', [i \in 1..Len(cartones) |-> ~cartones[i].yaGano],
                                 Len(cartones)))
      ]_vars

\* A call was accepted in a round whose language has a card that had won.
C6_Witness ==
    /\ ultimo.op = "cantar"
    /\ Len(historialPalabras) > 0
    /\ Len(ganadores) = 0
    /\ \E i \in 1..Len(cartones) :
          /\ cartones[i].yaGano
          /\ cartones[i].idioma = idiomaActual
          /\ historialPalabras[1] = cartones[i].palabras[1]

RoundActive == idiomaActual # <<>> /\ ~rondaBloqueada

\* C9: in RoundActive a call of a word that is not in the dictionary of the
\* active language leaves the cards, the call history, the winner list and the
\* round pointer as they were, and sets the word error.
C9_UnknownWordRejected ==
    [][(/\ ultimo'.op = "cantar"
        /\ RoundActive
        /\ Trim(ultimo'.palabra) # <<>>
        /\ Trim(ultimo'.palabra) \notin bancosPalabras[idiomaActual].palabras)
       => /\ UNCHANGED <<cartones, historialPalabras, ganadores, rondaIndex, rondas,
                         partidaTerminada>>
          /\ errorPalabra' = "no_existe"
      ]_vars

\* An unknown word was called in the middle of a round, after a marking.
C9_Witness ==
    /\ ultimo.op = "cantar"
    /\ RoundActive
    /\ errorPalabra = "no_existe"
    /\ Trim(ultimo.palabra) \notin bancosPalabras[idiomaActual].palabras
    /\ Len(historialPalabras) > 0
    /\ \E i \in 1..Len(cartones) : cartones[i].totalAciertos > 0

\* C10: a call made in RoundWon (winner list non-empty) or in Finished
\* changes no card, nor the call history, the winner list or the round pointer.
C10_CallOutsideRoundRejected ==
    [][(ultimo'.op = "cantar" /\ juegoIniciado /\ (rondaBloqueada \/ partidaTerminada))
       => UNCHANGED <<cartones, historialPalabras, ganadores, rondaIndex, rondas,
                      partidaTerminada>>
      ]_vars

\* In RoundWon, a word of the dictionary other than the winning call was called.
C10_Witness ==
    /\ ultimo.op = "cantar"
    /\ juegoIniciado /\ rondaBloqueada /\ ~partidaTerminada
    /\ Trim(ultimo.palabra) \in bancosPalabras[idiomaActual].palabras
    /\ historialPalabras[1] # Trim(ultimo.palabra)

LlamadaAceptada ==
    ultimo'.op = "cantar" /\ Len(historialPalabras') = Len(historialPalabras) + 1

\* C12: after an accepted call the winner list is exactly the cards of the
\* active language that had not won before the call and are now complete, in
\* their order in the collection; the session is in RoundWon after the call
\* exactly when there is such a card, and all of them are declared together.
C12_WinnersExactlyCompleted ==
    [][LlamadaAceptada =>
          LET completados ==
                  Restringir(cartones',
                             [i \in 1..Len(cartones) |->
                                 /\ cartones[i].idioma = idiomaActual
                                 /\ ~cartones[i].yaGano
                                 /\ cartones'[i].totalAciertos = cartones'[i].limitePalabras],
                             Len(cartones))
          IN  /\ Len(cartones') = Len(cartones)
              /\ ganadores' = completados
              /\ (Fase' = "RoundWon") <=> (completados # <<>>)
      ]_vars

\* The second call of a round completed two cards of different ids at once.
C12_Witness ==
    /\ ultimo.op = "cantar"
    /\ Len(historialPalabras) = 2
    /\ Len(ganadores) = 2
    /\ ganadores[1].id # ganadores[2].id
    /\ ganadores[1].limitePalabras # ganadores[2].limitePalabras

\* C13: an advance taken in RoundWon leaves the call history and the winner
\* list empty and moves the session one round forward: to RoundActive with the
\* round pointer raised by one, or, from the last round, to Finished.
C13_AdvanceClearsRound ==
    [][(ultimo'.op = "avanzar" /\ Fase = "RoundWon")
       => /\ historialPalabras' = <<>>
          /\ ganadores' = <<>>
          /\ \/ rondaIndex' = rondaIndex + 1 /\ Fase' = "RoundActive"
             \/ rondaIndex = Len(rondas) - 1 /\ Fase' = "Finished"
      ]_vars

\* C14: no step moves the session backward: the started flag does not return
\* to false, the round pointer does not decrease, and a Finished session stays
\* Finished.
C14_NeverBackward ==
    [][/\ juegoIniciado => juegoIniciado'
       /\ rondaIndex' >= rondaIndex
       /\ Fase = "Finished" => Fase' = "Finished"
      ]_vars

\* A game of two rounds has finished and an operation was taken after that.
C14_Witness ==
    /\ ultimo.fase = "Finished"
    /\ Fase = "Finished"
    /\ Len(rondas) = 2
    /\ rondaIndex = 1

\* C15: once the game has started no step changes the round sequence: it
\* stays the sequence generated at start through calls, advances and loads.
C15_RoundsFixed ==
    [][juegoIniciado => rondas' = rondas]_vars

\* After the start a file read completed and added a card of a language that
\* the round sequence does not hold.
C15_Witness ==
    /\ ultimo.op = "carga"
    /\ ultimo.fase # "Setup"
    /\ juegoIniciado
    /\ \E i \in 1..Len(cartones) :
          \A k \in 1..Len(rondas) : rondas[k] # cartones[i].idioma

\* Every word of the history h is marked on the card c wherever c holds it.
HistorialMarcado(c, h) ==
    \A k \in 1..Len(h) :
        \A j \in 1..Len(c.palabras) : c.palabras[j] = h[k] => c.marcadas[j]

\* C21: in the API-backed page no marking is lost under any interleaving of
\* call requests and their responses: when a response enters its word into
\* the call history, every card of the active language that has not won and
\* had every word of the history marked has every word of the new history
\* marked.
C21_NoMarkingLost ==
    [][(ultimo'.op = "respuesta" /\ Len(historialPalabras') = Len(historialPalabras) + 1)
       => \A i \in 1..Len(cartones) :
             (/\ i <= Len(cartones')
              /\ cartones[i].idioma = idiomaActual
              /\ ~cartones[i].yaGano
              /\ ~cartones'[i].yaGano
              /\ HistorialMarcado(cartones[i], historialPalabras))
             => HistorialMarcado(cartones'[i], historialPalabras')
      ]_vars

\* marcadas is as long as palabras, totalAciertos counts its true entries and
\* lies between 0 and limitePalabras.
CartonBienFormado(c) ==
    /\ DOMAIN c.marcadas = 1..Len(c.palabras)
    /\ c.totalAciertos = Cardinality({j \in 1..Len(c.palabras) : c.marcadas[j]})
    /\ 0 <= c.totalAciertos
    /\ c.totalAciertos <= c.limitePalabras

\* C22: after every step every card is well formed (marcadas as long as
\* palabras, totalAciertos the number of true entries, 0 <= totalAciertos <=
\* limitePalabras), and no step lowers a card's totalAciertos or turns a
\* marked entry back to false.
C22_MarksConsistentAndMonotone ==
    [][/\ \A i \in 1..Len(cartones') : CartonBienFormado(cartones'[i])
       /\ Len(cartones') >= Len(cartones)
       /\ \A i \in 1..Len(cartones) :
             /\ cartones'[i].totalAciertos >= cartones[i].totalAciertos
             /\ \A j \in 1..Len(cartones[i].palabras) :
                   cartones[i].marcadas[j] => cartones'[i].marcadas[j]
      ]_vars

\* A word was called twice in a round on a card of two words that holds it.
C22_Witness ==
    /\ ultimo.op = "cantar"
    /\ Len(historialPalabras) = 2
    /\ historialPalabras[1] = historialPalabras[2]
    /\ \E i \in 1..Len(cartones) :
          /\ cartones[i].limitePalabras = 2
          /\ cartones[i].totalAciertos = 1
          /\ \E j \in 1..2 : cartones[i].palabras[j] = historialPalabras[1]

\* C26: a card has yaGano only when it was selected as a winner, so every
\* card with yaGano has totalAciertos = limitePalabras.
C26_WonImpliesComplete ==
    \A i \in 1..Len(cartones) :
        cartones[i].yaGano => cartones[i].totalAciertos = cartones[i].limitePalabras

\* C27: once the game has started the rounds are the languages of the loaded
\* cards, one round for each: no card is added after Setup, not even by a
\* file read begun in Setup that completes after Start Game.
C27_OneRoundPerLanguage ==
    juegoIniciado =>
        /\ \A i, j \in 1..Len(rondas) : rondas[i] = rondas[j] => i = j
        /\ {rondas[i] : i \in 1..Len(rondas)} = {cartones[i].idioma : i \in 1..Len(cartones)}

\* The call of the word w is accepted in this state: a round is open, w is
\* not empty when trimmed and the round's dictionary, if loaded, holds it.
SeAcepta(w) ==
    /\ ~llamadaFueraDeRonda
    /\ Trim(w) # <<>>
    /\ ~noExisteEnBanco(bancosPalabras[idiomaActual], Trim(w))

\* C28 as stated: an accepted call puts its word at the end of the round's
\* call history, so that the history lists the accepted words in call order;
\* a rejected or empty call leaves the history as it was.
C28_HistoryInCallOrder ==
    [][ultimo'.op = "cantar"
       => historialPalabras' =
              IF SeAcepta(ultimo'.palabra)
              THEN Append(historialPalabras, Trim(ultimo'.palabra))
              ELSE historialPalabras
      ]_vars

\* C28 amended: an accepted call puts its word at the front of the round's
\* call history, one entry per accepted call, so that the history lists the
\* accepted words of the round from the last called to the first; a rejected
\* or empty call leaves it as it was, and so does every step that is not a
\* call, the start of the game or an advance.
C28_HistoryNewestFirst ==
    [][/\ ultimo'.op = "cantar"
          => historialPalabras' =
                 IF SeAcepta(ultimo'.palabra)
                 THEN <<Trim(ultimo'.palabra)>> \o historialPalabras
                 ELSE historialPalabras
       /\ ultimo'.op \notin {"cantar", "iniciar", "avanzar"}
          => historialPalabras' = historialPalabras
      ]_vars

\* Two different words were accepted in one round; the second call was typed
\* with white space around the word.
C28_Witness ==
    /\ ultimo.op = "cantar"
    /\ Len(historialPalabras) = 2
    /\ historialPalabras[1] # historialPalabras[2]
    /\ ultimo.palabra # historialPalabras[1]
    /\ Trim(ultimo.palabra) = historialPalabras[1]

\* C29: every accepted card can win: a card of the round's language whose
\* words have all been called in the round has every entry marked,
\* totalAciertos = limitePalabras, and is declared a winner.
C29_EveryCardCanWin ==
    juegoIniciado =>
        \A i \in 1..Len(cartones) :
            (/\ rondaIndex < Len(rondas)
             /\ cartones[i].idioma = rondas[rondaIndex + 1]
             /\ \A j \in 1..Len(cartones[i].palabras) :
                   \E k \in 1..Len(historialPalabras) :
                       historialPalabras[k] = cartones[i].palabras[j])
            => /\ \A j \in 1..Len(cartones[i].palabras) : cartones[i].marcadas[j]
               /\ cartones[i].totalAciertos = cartones[i].limitePalabras
               /\ cartones[i].yaGano
               /\ Len(ganadores) > 0

\* new Set(cartones.map((c) => c.idioma))
IdiomasDe(cs) == {cs[i].idioma : i \in 1..Len(cs)}

\* C30: once the game has started 0 <= rondaIndex < rondas.length, the active
\* language is defined exactly when the game is not finished, and the game
\* becomes finished only by an advance taken at the last round, after as many
\* advances as the cards have languages.  rondaIndex is 0 at the start and
\* each earlier advance added 1 to it, so the advance that finishes the game
\* is advance number rondaIndex + 1.
C30_PointerAndFinish ==
    [][/\ juegoIniciado' =>
             /\ 0 <= rondaIndex' /\ rondaIndex' < Len(rondas')
             /\ (idiomaActual' # <<>>) <=> ~partidaTerminada'
       /\ (~partidaTerminada /\ partidaTerminada') =>
             /\ ultimo'.op = "avanzar"
             /\ rondaIndex = Len(rondas) - 1
             /\ rondaIndex + 1 = Cardinality(IdiomasDe(cartones))
      ]_vars

\* C25: a word call changes no card of a language other than the round's and
\* no card that has already won (palabras, marcadas, totalAciertos and yaGano
\* are as before), adds and removes no card, and leaves every card's
\* palabras as they were.
C25_CallFrame ==
    [][ultimo'.op = "cantar"
       => /\ Len(cartones') = Len(cartones)
          /\ \A i \in 1..Len(cartones) :
                /\ cartones'[i].palabras = cartones[i].palabras
                /\ (cartones[i].idioma # idiomaActual \/ cartones[i].yaGano)
                   => cartones'[i] = cartones[i]
      ]_vars

\* An accepted call has marked its word on a card of the round's language
\* while a card of another language has won.
C25_Witness ==
    /\ ultimo.op = "cantar"
    /\ Len(historialPalabras) > 0
    /\ \E i, j \in 1..Len(cartones) :
          /\ cartones[i].idioma # idiomaActual
          /\ cartones[i].yaGano
          /\ cartones[j].idioma = idiomaActual
          /\ \E k \in 1..Len(cartones[j].palabras) :
                /\ cartones[j].palabras[k] = historialPalabras[1]
                /\ cartones[j].marcadas[k]

(***************************************************************************)
(* The functions on their own: inputs drawn by Init, one action per call.  *)
(***************************************************************************)
SeqsUpTo(S, n) == UNION {[1..k -> S] : k \in 0..n}

IsSorted(s) == \A i, j \in 1..Len(s) : i < j => ~StrLess(s[j], s[i])

Count(s, x) == Cardinality({i \in 1..Len(s) : s[i] = x})

IsPermutation(s, t) ==
    /\ Len(s) = Len(t)
    /\ \A i \in 1..Len(t) : Count(s, t[i]) = Count(t, t[i])

\* ---- mergeSort ----
InitSort ==
    /\ SessionInit
    /\ fn = "input"
    /\ entrada \in SeqsUpTo(Palabras, MaxLen)
    /\ salida = <<>>

SortApply ==
    /\ fn = "input"
    /\ fn' = "mergeSort"
    /\ salida' = mergeSort(entrada)
    /\ UNCHANGED <<entrada, sessionVars>>

\* mergeSort applied to its own output.
SortAgain ==
    /\ fn = "mergeSort"
    /\ fn' = "mergeSort2"
    /\ entrada' = salida
    /\ salida' = mergeSort(salida)
    /\ UNCHANGED sessionVars

NextSort == SortApply \/ SortAgain

SpecSort == InitSort /\ [][NextSort]_vars

\* C2: mergeSort returns a permutation of its input in non-decreasing
\* lexicographic order, and sorting its own output returns the same sequence.
C2_MergeSortSorts ==
    /\ fn \in {"mergeSort", "mergeSort2"} =>
          /\ IsPermutation(salida, entrada)
          /\ IsSorted(salida)
    /\ fn = "mergeSort2" => salida = entrada

\* An unsorted input with a repeated word has been sorted.
C2_Witness ==
    /\ fn = "mergeSort"
    /\ entrada = <<Wb, Wab, Wb>>
    /\ salida = <<Wab, Wb, Wb>>

\* C23: mergeSort is stable: words that compare equal come out in the order
\* they came in (on equal front elements merge takes the one of the left half).
C23_MergeSortStable ==
    fn = "mergeSort" =>
        LET pos == mergeSortPos(entrada, [i \in 1..Len(entrada) |-> i])
        IN  /\ Len(pos) = Len(salida)
            /\ \A k \in 1..Len(pos) : entrada[pos[k]] = salida[k]
            /\ \A k, l \in 1..Len(pos) :
                  (k < l /\ salida[k] = salida[l]) => pos[k] < pos[l]

\* ---- binarySearchMark ----
SortedSeqs(S, n) == {s \in SeqsUpTo(S, n) : IsSorted(s)}


InitSearch ==
    /\ SessionInit
    /\ fn = "input"
    /\ \E ps \in SortedSeqs(Palabras, MaxLen) :
          /\ entrada = [carton |-> NuevoCarton(SP1, J1, SP, ps), palabra |-> <<>>]
          /\ salida = [carton |-> NuevoCarton(SP1, J1, SP, ps), found |-> FALSE]

\* One call on the card the previous call left.
SearchMark ==
    \E w \in Palabras :
        /\ fn' = "binarySearchMark"
        /\ entrada' = [carton |-> salida.carton, palabra |-> w]
        /\ salida' = binarySearchMark(salida.carton, w)
        /\ UNCHANGED sessionVars

NextSearch == SearchMark

SpecSearch == InitSearch /\ [][NextSearch]_vars

Occurs(c, w) == \E i \in 1..Len(c.palabras) : c.palabras[i] = w

\* C3: on a card whose words are sorted, binarySearchMark reports a hit
\* exactly when the word occurs on the card; a miss changes neither marcadas
\* nor totalAciertos; a hit sets no entry but one whose word is the word called.
C3_BinarySearchFinds ==
    fn = "binarySearchMark" =>
        LET c == entrada.carton
            w == entrada.palabra
            r == salida
        IN  /\ IsSorted(c.palabras)
            /\ r.found <=> Occurs(c, w)
            /\ ~r.found => /\ r.carton.marcadas = c.marcadas
                           /\ r.carton.totalAciertos = c.totalAciertos
            /\ \A i \in 1..Len(c.palabras) :
                  r.carton.marcadas[i] # c.marcadas[i] =>
                      /\ c.palabras[i] = w
                      /\ r.carton.marcadas[i]
            /\ r.carton.palabras = c.palabras

\* A hit at the last position of a three-word card, and a miss on another.
C3_Witness ==
    /\ fn = "binarySearchMark"
    /\ entrada.carton.palabras = <<Wa, Wab, Wc>>
    /\ entrada.palabra = Wc
    /\ salida.found
    /\ salida.carton.marcadas = <<FALSE, FALSE, TRUE>>

NoneMarked(c, w) == \A i \in 1..Len(c.palabras) : c.palabras[i] = w => ~c.marcadas[i]

\* C4: marking is idempotent per word: a call with the word of the previous
\* call leaves marcadas and totalAciertos as that call left them; a hit on a
\* word none of whose entries is marked raises totalAciertos by exactly one,
\* and a hit on a word already marked raises it by zero.
C4_MarkIdempotent ==
    [][fn' = "binarySearchMark" =>
          LET c == entrada'.carton
              w == entrada'.palabra
              r == salida'
          IN  /\ (fn = "binarySearchMark" /\ entrada.palabra = w) =>
                    /\ r.carton.marcadas = salida.carton.marcadas
                    /\ r.carton.totalAciertos = salida.carton.totalAciertos
              /\ (r.found /\ NoneMarked(c, w)) =>
                    /\ r.carton.totalAciertos = c.totalAciertos + 1
                    /\ Cardinality({i \in 1..Len(c.palabras) :
                                      r.carton.marcadas[i] # c.marcadas[i]}) = 1
              /\ (r.found /\ ~NoneMarked(c, w)) => r.carton = c
      ]_vars

\* The second call of a word on a card that the first call marked.
C4_Witness ==
    /\ fn = "binarySearchMark"
    /\ salida.found
    /\ ~NoneMarked(entrada.carton, entrada.palabra)
    /\ entrada.carton.totalAciertos = 1
    /\ salida.carton.totalAciertos = 1

\* ---- checkWinnersGreedy ----

\* The id of the k-th candidate.
CandId(k) == <<"S", "P", "1", "1", "1", "1">> \o [i \in 1..k |-> "1"]

\* A card of `limite` words of which the first `aciertos` are marked.
CartonMarcado(id, limite, aciertos) ==
    [NuevoCarton(id, J1, SP, SubSeq(<<Wa, Wab, Wb, Wc>>, 1, limite))
        EXCEPT !.marcadas = [i \in 1..limite |-> i <= aciertos],
               !.totalAciertos = aciertos]

Candidatos(k) ==
    {CartonMarcado(CandId(k), l, a) : <<l, a>> \in {x \in (1..2) \X (0..2) : x[2] <= x[1]}}

ListasDeCandidatos ==
    UNION {{cs \in [1..n -> UNION {Candidatos(k) : k \in 1..n}] :
               \A k \in 1..n : cs[k] \in Candidatos(k)} : n \in 0..MaxCands}

InitWinners ==
    /\ SessionInit
    /\ fn = "input"
    /\ entrada \in ListasDeCandidatos
    /\ salida = [original |-> <<>>, winners |-> <<>>]

CheckWinners ==
    /\ fn = "input"
    /\ fn' = "checkWinnersGreedy"
    /\ entrada' = checkWinnersGreedy(entrada).cartones
    /\ salida' = [original |-> entrada, winners |-> checkWinnersGreedy(entrada).winners]
    /\ UNCHANGED sessionVars

NextWinners == CheckWinners

SpecWinners == InitWinners /\ [][NextWinners]_vars

Completo(c) == c.totalAciertos = c.limitePalabras

\* C5: for candidates with 0 <= totalAciertos <= limitePalabras,
\* checkWinnersGreedy returns what filtering the input for
\* totalAciertos = limitePalabras returns (the complete cards in their input
\* order), and the input list is left in its order.
C5_GreedyEqualsFilter ==
    fn = "checkWinnersGreedy" =>
        /\ \A k \in 1..Len(salida.original) :
              /\ 0 <= salida.original[k].totalAciertos
              /\ salida.original[k].totalAciertos <= salida.original[k].limitePalabras
        /\ salida.winners = SelectSeq(salida.original, Completo)
        /\ entrada = salida.original

\* Two complete cards with an incomplete one between them in the input.
C5_Witness ==
    /\ fn = "checkWinnersGreedy"
    /\ Len(salida.original) = 3
    /\ Completo(salida.original[1])
    /\ ~Completo(salida.original[2])
    /\ Completo(salida.original[3])
    /\ salida.winners = <<salida.original[1], salida.original[3]>>

\* ---- generateRandomRounds ----
ListasDeIdiomas ==
    {ls \in SeqsUpTo(Idiomas, Cardinality(Idiomas)) :
        \A i, j \in 1..Len(ls) : i # j => ls[i] # ls[j]}

InitRounds ==
    /\ SessionInit
    /\ fn = "input"
    /\ entrada \in ListasDeIdiomas
    /\ salida = [original |-> <<>>, draws |-> <<>>, rondas |-> <<>>]

GenerateRounds ==
    /\ fn = "input"
    /\ \E draws \in ValidDraws(Len(entrada)) :
          /\ entrada' = generateRandomRounds(entrada, draws).idiomasDisponibles
          /\ salida' = [original |-> entrada, draws |-> draws,
                        rondas |-> generateRandomRounds(entrada, draws).rondas]
    /\ fn' = "generateRandomRounds"
    /\ UNCHANGED sessionVars

NextRounds == GenerateRounds

SpecRounds == InitRounds /\ [][NextRounds]_vars

\* C7: for n distinct languages and any draws, generateRandomRounds returns
\* n languages holding each input language exactly once, and leaves the
\* input list as it was.
C7_RoundsArePermutation ==
    fn = "generateRandomRounds" =>
        /\ Len(salida.rondas) = Len(salida.original)
        /\ \A i \in 1..Len(salida.original) :
              Count(salida.rondas, salida.original[i]) = 1
        /\ entrada = salida.original

\* Four languages, drawn into an order that moves every one of them.
C7_Witness ==
    /\ fn = "generateRandomRounds"
    /\ salida.original = <<SP, EN, PT, DT>>
    /\ salida.rondas = <<DT, PT, EN, SP>>

\* The draw sequences that lead generateRandomRounds to the order p.
DrawsInto(idiomas, p) ==
    {d \in ValidDraws(Len(idiomas)) : generateRandomRounds(idiomas, d).rondas = p}

\* C8: every order of the n input languages is produced by the same number
\* of draw sequences (j in 0..i for i from n-1 down to 1), so with an
\* unbiased source every order is equally likely.
C8_RoundsUniform ==
    fn = "generateRandomRounds" =>
        \A p \in {q \in ListasDeIdiomas : IsPermutation(q, salida.original)} :
            Cardinality(DrawsInto(salida.original, p))
                = Cardinality(DrawsInto(salida.original, salida.rondas))

\* Three languages: six orders, six draw sequences.
C8_Witness ==
    /\ fn = "generateRandomRounds"
    /\ Len(salida.original) = 3
    /\ salida.rondas # salida.original
    /\ Cardinality(ValidDraws(3)) = 6

\* ---- processInputData ----
X1 == <<"X", "1">>
XX1 == <<"X", "X", "1">>
DT1 == <<"D", "T", "1">>
DT2 == <<"D", "T", "2">>

\* n copies of the word w.
Rep(w, n) == [i \in 1..n |-> w]

\* The lines of a text handed to the parser: an owner line; card lines that
\* are accepted with every dictionary loaded (one with its words unsorted,
\* one separated by a tab and more white space, one with as many words as its
\* language allows); a card line with two words that are not in its
\* dictionary; a line of one token; an id of two characters; an id of no
\* known language; a line with one word more than its language allows; a
\* line of white space; a line that starts with J and holds a tab.
LineasParse ==
    {J1,
     Unir(<<SP1, Wb, Wa>>),
     Unir(<<EN1, Wc>>),
     SP2 \o <<"\t", " ">> \o Wa \o <<" ">>,
     Unir(<<DT2>> \o Rep(Wc, LIMITES(DT))),
     Unir(<<SP3, Wc, Wa, Wab>>),
     SP2,
     Unir(<<X1, Wa>>),
     Unir(<<XX1, Wa>>),
     Unir(<<DT1>> \o Rep(Wc, LIMITES(DT) + 1)),
     <<" ", "\t">>,
     <<"J", "\t", "a">>}

TextosParse == UNION {[1..n -> LineasParse] : n \in 1..MaxLineasParse}

\* bancosPalabras as the parser may be handed it: every dictionary loaded;
\* the EN dictionary loaded but empty; the EN key absent; no key at all.
BancosParse ==
    {[l \in Idiomas |-> [cargado |-> TRUE, palabras |-> BancoOficial(l)]],
     [l \in Idiomas |-> [cargado |-> TRUE,
                         palabras |-> IF l = EN THEN {} ELSE BancoOficial(l)]],
     [l \in Idiomas |-> IF l = EN THEN SinBanco
                        ELSE [cargado |-> TRUE, palabras |-> BancoOficial(l)]],
     [l \in Idiomas |-> SinBanco]}

InitParse ==
    /\ SessionInit
    /\ fn = "input"
    /\ entrada \in [text : TextosParse, bancos : BancosParse]
    /\ salida = [cartones |-> <<>>, errores |-> <<>>]

ParseApply ==
    /\ fn = "input"
    /\ fn' = "processInputData"
    /\ salida' = processInputData(entrada.text, entrada.bancos)
    /\ UNCHANGED <<entrada, sessionVars>>

NextParse == ParseApply

SpecParse == InitParse /\ [][NextParse]_vars

\* What a line says, read off the text alone.
TokensDe(l) == SplitWs(Trim(l))
IdDe(l) == TokensDe(l)[1]
PalabrasDe(l) == Tail(TokensDe(l))
IdiomaDe(l) == SubSeq(IdDe(l), 1, 2)
EsBlanca(l) == Trim(l) = <<>>
EsJugador(l) == EsLineaJugador(Trim(l))

\* An owner line comes before line n.
BajoJugador(text, n) == \E k \in 1..(n - 1) : EsJugador(text[k])

\* The owner in force at line n: the last owner line before it.
JugadorDe(text, n) ==
    LET k == CHOOSE j \in 1..(n - 1) :
                 /\ EsJugador(text[j])
                 /\ \A m \in (j + 1)..(n - 1) : ~EsJugador(text[m])
    IN  Trim(text[k])

\* Line n sits under an owner and has fewer than 2 tokens.
LineaCorta(text, n) ==
    /\ ~EsBlanca(text[n]) /\ ~EsJugador(text[n])
    /\ BajoJugador(text, n)
    /\ Len(TokensDe(text[n])) < 2

\* Line n is a card line: under an owner, an id of a known language and at
\* least one word.
LineaDeCarton(text, n) ==
    /\ ~EsBlanca(text[n]) /\ ~EsJugador(text[n])
    /\ BajoJugador(text, n)
    /\ Len(TokensDe(text[n])) >= 2
    /\ Len(IdDe(text[n])) >= 3
    /\ IdiomaDe(text[n]) \in Idiomas

\* The words of the line that its language's dictionary does not hold.
InvalidasDe(l, bancos) ==
    LET Falta(w) == w \notin bancos[IdiomaDe(l)].palabras
    IN  SelectSeq(PalabrasDe(l), Falta)

DentroDeLimite(l) == Len(PalabrasDe(l)) <= LIMITES(IdiomaDe(l))

ConBanco(l, bancos) ==
    bancos[IdiomaDe(l)].cargado /\ bancos[IdiomaDe(l)].palabras # {}

\* The card line n passes every test.
Aceptable(text, n, bancos) ==
    /\ LineaDeCarton(text, n)
    /\ DentroDeLimite(text[n])
    /\ ConBanco(text[n], bancos)
    /\ InvalidasDe(text[n], bancos) = <<>>

\* The numbers of the lines that pass every test, in order.
LineasAceptables(text, bancos) ==
    Restringir([n \in 1..Len(text) |-> n],
               [n \in 1..Len(text) |-> Aceptable(text, n, bancos)], Len(text))

\* The errors of the result that name line n.
ErroresDe(res, n) == {k \in 1..Len(res.errores) : res.errores[k].linea = n}

\* An owner line as the format describes it: starts with J, 2 to 9
\* characters, no white space.
LineaDePropietario(l) ==
    LET line == Trim(l)
    IN  /\ Len(line) >= 2 /\ Len(line) <= 9
        /\ line[1] = "J"
        /\ \A i \in 1..Len(line) : ~IsSpace(line[i])

BajoPropietario(text, n) == \E k \in 1..(n - 1) : LineaDePropietario(text[k])

\* The last such owner line before line n.
PropietarioDe(text, n) ==
    LET k == CHOOSE j \in 1..(n - 1) :
                 /\ LineaDePropietario(text[j])
                 /\ \A m \in (j + 1)..(n - 1) : ~LineaDePropietario(text[m])
    IN  Trim(text[k])

\* Line n is neither white space nor such an owner line, comes after one,
\* and passes every test of a card line.
CartonBajoPropietario(text, n, bancos) ==
    /\ ~EsBlanca(text[n]) /\ ~LineaDePropietario(text[n])
    /\ BajoPropietario(text, n)
    /\ Len(TokensDe(text[n])) >= 2
    /\ Len(IdDe(text[n])) >= 3
    /\ IdiomaDe(text[n]) \in Idiomas
    /\ DentroDeLimite(text[n])
    /\ ConBanco(text[n], bancos)
    /\ InvalidasDe(text[n], bancos) = <<>>

LineasBajoPropietario(text, bancos) ==
    Restringir([n \in 1..Len(text) |-> n],
               [n \in 1..Len(text) |-> CartonBajoPropietario(text, n, bancos)], Len(text))

\* C24: a line that is neither white space nor an owner line (starts with J,
\* 2 to 9 characters, no white space) and has no owner line before it gives
\* the missing-owner error and no card; an owner line gives no error and no
\* card; and every card carries the last owner line before its line.
C24_OwnerContext ==
    fn = "processInputData" =>
        LET text == entrada.text
            res == salida
            lineas == LineasBajoPropietario(text, entrada.bancos)
        IN  /\ \A n \in 1..Len(text) :
                  LineaDePropietario(text[n]) => ErroresDe(res, n) = {}
            /\ \A n \in 1..Len(text) :
                  (/\ ~EsBlanca(text[n]) /\ ~LineaDePropietario(text[n])
                   /\ ~BajoPropietario(text, n))
                  => /\ Cardinality(ErroresDe(res, n)) = 1
                     /\ \A k \in ErroresDe(res, n) : res.errores[k].tipo = "sin_jugador"
            /\ Len(res.cartones) = Len(lineas)
            /\ \A k \in 1..Len(lineas) :
                  /\ res.cartones[k].id = IdDe(text[lineas[k]])
                  /\ res.cartones[k].jugador = PropietarioDe(text, lineas[k])

\* C16: a parse reads every line: each line is white space, an owner line,
\* a line of fewer than 2 tokens under an owner (skipped without an error), a
\* line with exactly one error, or a line that gave a card; the errors come in
\* line order; and the cards are those of the text with the rejected and the
\* skipped lines taken out, which parses without an error.
C16_ParseNeverAborts ==
    fn = "processInputData" =>
        LET text == entrada.text
            rechazadas == {salida.errores[k].linea : k \in 1..Len(salida.errores)}
            cortas == {n \in 1..Len(text) : LineaCorta(text, n)}
            otras == {n \in 1..Len(text) : EsBlanca(text[n]) \/ EsJugador(text[n])}
            limpio == Restringir(text, [n \in 1..Len(text) |-> n \notin rechazadas \cup cortas],
                                 Len(text))
        IN  /\ rechazadas \subseteq 1..Len(text)
            /\ Cardinality(rechazadas) = Len(salida.errores)
            /\ \A j, k \in 1..Len(salida.errores) :
                  j < k => salida.errores[j].linea < salida.errores[k].linea
            /\ rechazadas \cap (cortas \cup otras) = {}
            /\ Len(salida.cartones)
                  = Len(text) - Cardinality(rechazadas \cup cortas \cup otras)
            /\ processInputData(limpio, entrada.bancos)
                  = [cartones |-> salida.cartones, errores |-> <<>>]

\* Under an owner, a line with an id that is too short and then a card line
\* that was accepted.
C16_Witness ==
    /\ fn = "processInputData"
    /\ entrada.text = <<J1, Unir(<<X1, Wa>>), Unir(<<SP1, Wb, Wa>>)>>
    /\ Len(salida.errores) = 1
    /\ salida.errores[1].linea = 2
    /\ Len(salida.cartones) = 1
    /\ salida.cartones[1].id = SP1

\* The card line n is within its limit, has its dictionary, and holds a word
\* that the dictionary does not.
ConPalabraInvalida(text, n, bancos) ==
    /\ LineaDeCarton(text, n)
    /\ DentroDeLimite(text[n])
    /\ ConBanco(text[n], bancos)
    /\ InvalidasDe(text[n], bancos) # <<>>

\* C17: a card line with a word that is not in its language's dictionary
\* gives no card and exactly one error, which names the line's id and lists
\* every word of the line that is not in the dictionary, in line order; the
\* cards of the result are those of the lines that pass every test.
C17_InvalidWordsRejectCard ==
    fn = "processInputData" =>
        LET text == entrada.text
            aceptables == LineasAceptables(text, entrada.bancos)
        IN  /\ \A n \in 1..Len(text) :
                  ConPalabraInvalida(text, n, entrada.bancos) =>
                      /\ Cardinality(ErroresDe(salida, n)) = 1
                      /\ \A k \in ErroresDe(salida, n) :
                            /\ salida.errores[k].tipo = "palabras_no_permitidas"
                            /\ salida.errores[k].id = IdDe(text[n])
                            /\ salida.errores[k].detalle = InvalidasDe(text[n], entrada.bancos)
            /\ Len(salida.cartones) = Len(aceptables)
            /\ \A k \in 1..Len(aceptables) :
                  salida.cartones[k].id = IdDe(text[aceptables[k]])

\* A line with two words that are not in the dictionary, before a card
\* line that was accepted.
C17_Witness ==
    /\ fn = "processInputData"
    /\ entrada.text = <<J1, Unir(<<SP3, Wc, Wa, Wab>>), Unir(<<SP1, Wb, Wa>>)>>
    /\ Len(salida.errores) = 1
    /\ salida.errores[1].detalle = <<Wc, Wab>>
    /\ Len(salida.cartones) = 1

\* C18: a card line with more words than its language allows (SP 24, EN 14,
\* PT 20, DT 10) gives exactly one error, which names the id and the limit,
\* and no card; every card of the result has at least 1 word and at most its
\* language's maximum.
C18_WordLimitEnforced ==
    fn = "processInputData" =>
        LET text == entrada.text
        IN  /\ LIMITES(SP) = 24 /\ LIMITES(EN) = 14 /\ LIMITES(PT) = 20 /\ LIMITES(DT) = 10
            /\ \A n \in 1..Len(text) :
                  (LineaDeCarton(text, n) /\ ~DentroDeLimite(text[n])) =>
                      /\ Cardinality(ErroresDe(salida, n)) = 1
                      /\ \A k \in ErroresDe(salida, n) :
                            /\ salida.errores[k].tipo = "excede_limite"
                            /\ salida.errores[k].id = IdDe(text[n])
                            /\ salida.errores[k].detalle = <<LIMITES(IdiomaDe(text[n]))>>
                      /\ \A k \in 1..Len(salida.cartones) :
                            salida.cartones[k].id # IdDe(text[n])
            /\ \A k \in 1..Len(salida.cartones) :
                  /\ Len(salida.cartones[k].palabras) >= 1
                  /\ Len(salida.cartones[k].palabras) <= LIMITES(salida.cartones[k].idioma)

\* A DT line of 11 words was rejected and a DT line of 10 words gave a card.
C18_Witness ==
    /\ fn = "processInputData"
    /\ entrada.text = <<J1, Unir(<<DT1>> \o Rep(Wc, 11)), Unir(<<DT2>> \o Rep(Wc, 10))>>
    /\ Len(salida.errores) = 1
    /\ salida.errores[1].tipo = "excede_limite"
    /\ Len(salida.cartones) = 1
    /\ Len(salida.cartones[1].palabras) = 10

\* C19: a card line within its limit whose language has no dictionary, or an
\* empty one, gives exactly one error, the missing-dictionary error naming the
\* language, and no card; every card of the result has a language with a
\* non-empty dictionary that holds all the card's words.
C19_FailClosedOnDictionaries ==
    fn = "processInputData" =>
        LET text == entrada.text
            bancos == entrada.bancos
        IN  /\ \A n \in 1..Len(text) :
                  (/\ LineaDeCarton(text, n)
                   /\ DentroDeLimite(text[n])
                   /\ ~ConBanco(text[n], bancos)) =>
                      /\ Cardinality(ErroresDe(salida, n)) = 1
                      /\ \A k \in ErroresDe(salida, n) :
                            /\ salida.errores[k].tipo = "banco_no_cargado"
                            /\ salida.errores[k].id = IdiomaDe(text[n])
                      /\ \A k \in 1..Len(salida.cartones) :
                            salida.cartones[k].idioma # IdiomaDe(text[n])
            /\ \A k \in 1..Len(salida.cartones) :
                  LET c == salida.cartones[k]
                  IN  /\ bancos[c.idioma].cargado
                      /\ bancos[c.idioma].palabras # {}
                      /\ \A i \in 1..Len(c.palabras) :
                            c.palabras[i] \in bancos[c.idioma].palabras

\* With the EN dictionary loaded but empty, an EN line was rejected and an SP
\* line after it gave a card.
C19_Witness ==
    /\ fn = "processInputData"
    /\ entrada.bancos[EN].cargado
    /\ entrada.bancos[EN].palabras = {}
    /\ entrada.text = <<J1, Unir(<<EN1, Wc>>), Unir(<<SP1, Wb, Wa>>)>>
    /\ Len(salida.errores) = 1
    /\ salida.errores[1].tipo = "banco_no_cargado"
    /\ Len(salida.cartones) = 1

\* C20: the cards of the result are those of the lines that pass every test,
\* in line order, and each has the id of its line, the owner in force, its
\* words in non-decreasing order and equal as a multiset to the line's word
\* tokens, marcadas of the same length and all false, totalAciertos 0,
\* limitePalabras equal to the number of words, and for idioma the first two
\* characters of its id.
C20_AcceptedCardShape ==
    fn = "processInputData" =>
        LET text == entrada.text
            aceptables == LineasAceptables(text, entrada.bancos)
        IN  /\ Len(salida.cartones) = Len(aceptables)
            /\ \A k \in 1..Len(aceptables) :
                  LET c == salida.cartones[k]
                      n == aceptables[k]
                  IN  /\ c.id = IdDe(text[n])
                      /\ c.jugador = JugadorDe(text, n)
                      /\ IsSorted(c.palabras)
                      /\ IsPermutation(c.palabras, PalabrasDe(text[n]))
                      /\ DOMAIN c.marcadas = 1..Len(c.palabras)
                      /\ \A i \in 1..Len(c.palabras) : ~c.marcadas[i]
                      /\ c.totalAciertos = 0
                      /\ c.limitePalabras = Len(c.palabras)
                      /\ c.idioma = SubSeq(c.id, 1, 2)
                      /\ ~c.yaGano

\* A line with its two words out of order, and after it a card line whose
\* tokens are separated by a tab and a space.
C20_Witness ==
    /\ fn = "processInputData"
    /\ Len(entrada.text) = 3
    /\ entrada.text[1] = J1
    /\ entrada.text[2] = Unir(<<SP1, Wb, Wa>>)
    /\ PalabrasDe(entrada.text[3]) = <<Wa>>
    /\ Len(salida.cartones) = 2
    /\ salida.cartones[1].palabras = <<Wa, Wb>>
    /\ salida.cartones[1].limitePalabras = 2
    /\ salida.cartones[2].id = SP2

====
